---- MODULE Spec2Model ----
(***************************************************************************)
(* A model of the falling-sand world of src/src/lib.rs: the Block value    *)
(* type with its pure functions, and World with new, set_block, get_block  *)
(* and update.  One call of World::update is unrolled into one step per    *)
(* visited cell of its double loop (rows bottom to top, columns left to    *)
(* right), between BeginUpdate and EndUpdate.                              *)
(***************************************************************************)
EXTENDS Integers, Sequences, FiniteSets, TLC

\* ------------------------------------------------------------------ bounds
MaxWidth == 3
MaxHeight == 3
\* number of set_block calls the driver makes
MaxSets == 3
\* ticks followed by the drop monitor after a lone Sand was placed
MaxTicks == 4
\* side of the square world of SpecPile, and the number of its non-Air cells
PileSize == 3
MaxBlocks == 5
\* the number of non-Air cells of the world of SpecBias
BiasBlocks == 4

\* usize::MAX, the value x - 1 wraps to at x = 0 when overflow checks are off.
\* TLC's integers are 32 bits wide, so the largest of them stands for 2^64 - 1:
\* what matters is that it is no column of any grid.
usize_MAX == 2147483647

\* ------------------------------------------------------------ Block values
FlowDir == {"None", "Left", "Right"}

Air == <<"Air">>
Stone == <<"Stone">>
Sand == <<"Sand">>
Water(flow_dir) == <<"Water", flow_dir>>
Lava(flow_dir) == <<"Lava", flow_dir>>

Block == {Air, Stone, Sand} \cup {Water(f) : f \in FlowDir} \cup {Lava(f) : f \in FlowDir}

\* the material of a block, ignoring the flow direction of a liquid
Kind(b) == b[1]

\* is_static that leaves Stone to gravity
is_static_air(b) == Kind(b) = "Air"

is_static(b) == Kind(b) \in {"Air", "Stone"}

density(b) ==
    CASE Kind(b) = "Air" -> 0
      [] Kind(b) = "Water" -> 1
      [] Kind(b) = "Lava" -> 2
      [] Kind(b) = "Sand" -> 3
      [] Kind(b) = "Stone" -> 100

\* can_move_to with >= for >: equal densities displace each other
can_move_to_ge(self, other) == density(self) >= density(other)

can_move_to(self, other) == density(self) > density(other)

state(b) ==
    CASE Kind(b) = "Air" -> "Gas"
      [] Kind(b) = "Water" -> "Liquid"
      [] Kind(b) = "Lava" -> "Liquid"
      [] Kind(b) = "Sand" -> "Solid"
      [] Kind(b) = "Stone" -> "Solid"

get_flow_dir(b) == IF Kind(b) \in {"Water", "Lava"} THEN b[2] ELSE "None"

\* the value of unreachable!() in clone_with_flow
Unreachable == <<"unreachable">>

\* clone_with_flow returning the liquid as it is
clone_with_flow_kept(b, flowing) ==
    CASE Kind(b) = "Water" -> b
      [] Kind(b) = "Lava" -> b
      [] OTHER -> Unreachable

clone_with_flow(b, flowing) ==
    CASE Kind(b) = "Water" -> Water(flowing)
      [] Kind(b) = "Lava" -> Lava(flowing)
      [] OTHER -> Unreachable

\* ------------------------------------------------------------------- state
VARIABLES
    width, height,   \* World.width, World.height
    blocks,          \* World.blocks: blocks[y][x], row 0 on top
    pc,              \* "idle" between calls, "update" inside update's loop, "done" at its end
    x, y,            \* the loop variables of update
    updated,         \* update's local Vec of (x, y) positions
    panic,           \* "none", or the panic that ended the program
    nsets,           \* set_block calls made so far
    pre,             \* history: blocks when the running update began
    ids,             \* history: ids[y][x] is where the block now at (x, y) was when update began
    acted,           \* history: the ids update moved by their own gravity or side flow, in order
    shoved,          \* history: the ids of the non-Air blocks displaced by a mover, in order
    drop,            \* history: <<x, y, k>> once a lone Sand was placed at (x, y), k updates ago
    visits,          \* history: <<id, how, to>> of each block the loop body of update handled
    hist,            \* history, kept when the world is painted with liquids of bias None:
                     \* hist[y][x] = <<last horizontal move, last side flow>> of the block at (x, y)
    mover, target,   \* the arguments of a call of can_move_to made on its own
    answer           \* its results, <<self.can_move_to(other), other.can_move_to(self)>>

\* the variables of the calls of can_move_to made on their own
query == <<mover, target, answer>>

vars == <<width, height, blocks, pc, x, y, updated, panic, nsets, pre, ids, acted, shoved, drop,
          visits, hist, mover, target, answer>>

\* ----------------------------------------------------------------- helpers
Range(s) == {s[i] : i \in 1..Len(s)}
Contains(s, e) == e \in Range(s)
\* Vec::remove(index), index counted from 0
Remove(s, index) == [i \in 1..(Len(s) - 1) |-> IF i <= index THEN s[i] ELSE s[i + 1]]
Count(s, e) == Cardinality({i \in 1..Len(s) : s[i] = e})
Min(a, b) == IF a <= b THEN a ELSE b

Cols(w) == 0..(w - 1)
Rows(h) == 0..(h - 1)
Coords == {<<i, j>> : i \in Cols(width), j \in Rows(height)}

\* vec![vec![Block::Air; width]; height]
NewGrid(w, h) == [j \in Rows(h) |-> [i \in Cols(w) |-> Air]]
\* the grid of the positions themselves
IdGrid == [j \in Rows(height) |-> [i \in Cols(width) |-> <<i, j>>]]

\* a Vec index that does not panic
InBounds(px, py) == py \in Rows(height) /\ px \in Cols(width)

\* x - 1 on usize: the wrapped value
WrapPred(n) == IF n = 0 THEN usize_MAX ELSE n - 1

\* g with the cell at a copied to b, and a left as it was
SwapCopies(g, a, b) ==
    [j \in DOMAIN g |-> [i \in DOMAIN g[j] |->
        IF <<i, j>> = b THEN g[a[2]][a[1]] ELSE g[j][i]]]

\* g with the cells at a and b exchanged
Swap(g, a, b) ==
    [j \in DOMAIN g |-> [i \in DOMAIN g[j] |->
        IF <<i, j>> = a THEN g[b[2]][b[1]]
        ELSE IF <<i, j>> = b THEN g[a[2]][a[1]]
        ELSE g[j][i]]]

\* -------------------------------------------------------------- World::new
Init ==
    /\ width \in 0..MaxWidth
    /\ height \in 0..MaxHeight
    /\ blocks = NewGrid(width, height)
    /\ pc = "idle"
    /\ x = 0
    /\ y = 0
    /\ updated = <<>>
    /\ panic = "none"
    /\ nsets = 0
    /\ pre = <<>>
    /\ ids = <<>>
    /\ acted = <<>>
    /\ shoved = <<>>
    /\ drop = <<>>
    /\ visits = <<>>
    /\ hist = <<>>
    /\ mover = Air
    /\ target = Air
    /\ answer = <<>>

\* ------------------------------------------------- get_block and set_block
None == <<"None">>
Some(b) == <<"Some", b>>

get_block(g, px, py) ==
    IF py \in DOMAIN g
    THEN IF px \in DOMAIN g[py] THEN Some(g[py][px]) ELSE None
    ELSE None

\* the test of set_block with || for &&
in_world_or(px, py) == px < width \/ py < height

\* the test of set_block
in_world(px, py) == px < width /\ py < height

\* exactly one Sand, at (px, py), in a grid otherwise Air
LoneSand(g, px, py) ==
    /\ InBounds(px, py)
    /\ \A c \in Coords : g[c[2]][c[1]] = IF c = <<px, py>> THEN Sand ELSE Air

\* set_block on the grid g: the grid it leaves and the panic it ends in, if any
set_block(g, px, py, block) ==
    IF in_world(px, py)
    THEN IF InBounds(px, py)
         THEN [panic |-> "none", blocks |-> [g EXCEPT ![py][px] = block]]
         ELSE [panic |-> "index out of bounds", blocks |-> g]
    ELSE [panic |-> "none", blocks |-> g]

\* the coordinates a driver passes: every cell, one past each edge, and a wrapped value
ArgX == Cols(width) \cup {width, usize_MAX}
ArgY == Rows(height) \cup {height, usize_MAX}

\* the driver calls set_block between two updates
SetBlock ==
    /\ pc = "idle"
    /\ panic = "none"
    /\ nsets < MaxSets
    /\ nsets' = nsets + 1
    /\ \E px \in ArgX, py \in ArgY, block \in Block :
         LET result == set_block(blocks, px, py, block)
         IN  /\ blocks' = result.blocks
             /\ panic' = result.panic
             /\ drop' = IF block = Sand /\ LoneSand(blocks', px, py) THEN <<px, py, 0>> ELSE <<>>
             /\ hist' = IF hist # <<>> /\ InBounds(px, py)
                        THEN [hist EXCEPT ![py][px] = <<"None", "None">>]
                        ELSE hist
    /\ UNCHANGED <<query, width, height, pc, x, y, updated, pre, ids, acted, shoved, visits>>

\* ------------------------------------------------------------ World::update
\* the rows in the order 0..self.height yields them
RowsForward == [k \in 1..height |-> k - 1]

\* the rows in the order (0..self.height).rev() yields them
RowOrder == [k \in 1..height |-> height - k]

BeginUpdate ==
    /\ pc = "idle"
    /\ panic = "none"
    /\ pc' = IF width = 0 \/ height = 0 THEN "done" ELSE "update"
    /\ y' = IF height = 0 THEN 0 ELSE RowOrder[1]
    /\ x' = 0
    /\ updated' = <<>>
    /\ pre' = blocks
    /\ ids' = IdGrid
    /\ acted' = <<>>
    /\ shoved' = <<>>
    /\ visits' = <<>>
    /\ UNCHANGED <<query, width, height, blocks, panic, nsets, drop, hist>>

\* the two for loops: columns 0..width, inside rows (0..height).rev()
NextCell ==
    LET k == CHOOSE k \in 1..height : RowOrder[k] = y
    IN  IF x + 1 < width THEN pc' = "update" /\ x' = x + 1 /\ y' = y
        ELSE IF k < height THEN pc' = "update" /\ x' = 0 /\ y' = RowOrder[k + 1]
        ELSE pc' = "done" /\ x' = 0 /\ y' = 0

EndUpdate ==
    /\ pc = "done"
    /\ panic = "none"
    /\ pc' = "idle"
    /\ updated' = <<>>
    /\ pre' = <<>>
    /\ ids' = <<>>
    /\ acted' = <<>>
    /\ shoved' = <<>>
    /\ drop' = IF drop # <<>> /\ drop[3] < MaxTicks
               THEN <<drop[1], drop[2], drop[3] + 1>>
               ELSE <<>>
    /\ visits' = <<>>
    /\ UNCHANGED <<query, width, height, blocks, x, y, panic, nsets, hist>>

\* the continue without the test of updated
SkipsStatic(block) == is_static(block)

\* the continue at the top of the loop body
Skips(block) == is_static(block) \/ Contains(updated, <<x, y>>)

SkipCell ==
    /\ pc = "update"
    /\ panic = "none"
    /\ Skips(blocks[y][x])
    /\ NextCell
    /\ UNCHANGED <<query, width, height, blocks, updated, panic, nsets, pre, ids, acted, shoved, drop,
                   visits, hist>>

\* ------------------------------------------- apply_gravity and can_fall_to
\* can_fall_to without the test of the cell beside the mover (above_to)
can_fall_to_no_side(from, to) ==
    IF to[1] >= width \/ to[2] >= height
    THEN FALSE
    ELSE can_move_to(blocks[from[2]][from[1]], blocks[to[2]][to[1]])

can_fall_to(from, to) ==
    IF to[1] >= width \/ to[2] >= height
    THEN FALSE
    ELSE LET from_block == blocks[from[2]][from[1]]
             to_block == blocks[to[2]][to[1]]
         IN  IF to[1] # from[1]
             THEN LET above_to == blocks[from[2]][to[1]]
                  IN  can_move_to(from_block, to_block) /\ can_move_to(from_block, above_to)
             ELSE can_move_to(from_block, to_block)

\* positions of apply_gravity without the fall to the right
FallPositionsLeftOnly(cx, cy) ==
    IF cx > 0 /\ can_fall_to(<<cx, cy>>, <<cx - 1, cy + 1>>) THEN <<cx - 1>> ELSE <<>>

\* positions of apply_gravity: the columns of the diagonal falls
FallPositions(cx, cy) ==
    (IF cx > 0 /\ can_fall_to(<<cx, cy>>, <<cx - 1, cy + 1>>) THEN <<cx - 1>> ELSE <<>>)
    \o (IF cx < width - 1 /\ can_fall_to(<<cx, cy>>, <<cx + 1, cy + 1>>) THEN <<cx + 1>> ELSE <<>>)

\* apply_gravity taking the row above the bottom row for the floor
GravityTargetsEarlyFloor(cx, cy) ==
    IF cy >= height - 2
    THEN {}
    ELSE IF can_fall_to(<<cx, cy>>, <<cx, cy + 1>>)
         THEN {<<cx, cy + 1>>}
         ELSE {<<position, cy + 1>> : position \in Range(FallPositions(cx, cy))}

\* the cells apply_gravity(cx, cy) may exchange (cx, cy) with; it returns true iff there is one
GravityTargets(cx, cy) ==
    IF cy >= height - 1
    THEN {}
    ELSE IF can_fall_to(<<cx, cy>>, <<cx, cy + 1>>)
         THEN {<<cx, cy + 1>>}
         ELSE {<<position, cy + 1>> : position \in Range(FallPositions(cx, cy))}

\* history of one exchange: the mover acted, the block it displaced was shoved
Moved(from, to) ==
    /\ ids' = Swap(ids, from, to)
    /\ acted' = Append(acted, ids[from[2]][from[1]])
    /\ shoved' = IF blocks[to[2]][to[1]] = Air THEN shoved
                 ELSE Append(shoved, ids[to[2]][to[1]])
    /\ hist' = IF hist = <<>> THEN hist
               ELSE LET went == IF to[1] < from[1] THEN "Left" ELSE "Right"
                        back == IF to[1] < from[1] THEN "Right" ELSE "Left"
                        was == hist[from[2]][from[1]]
                        other == hist[to[2]][to[1]]
                    IN  [hist EXCEPT
                           ![to[2]][to[1]] =
                               <<IF to[1] # from[1] THEN went ELSE was[1],
                                 IF to[2] = from[2] THEN went ELSE was[2]>>,
                           ![from[2]][from[1]] =
                               IF blocks[to[2]][to[1]] = Air THEN <<"None", "None">>
                               ELSE <<IF to[1] # from[1] THEN back ELSE other[1], other[2]>>]

\* the block at (x, y) falls to the cell to
Fall(to) ==
    /\ blocks' = Swap(blocks, <<x, y>>, to)
    /\ Moved(<<x, y>>, to)
    /\ visits' = Append(visits, <<ids[y][x], "fall", to>>)
    /\ NextCell
    /\ UNCHANGED <<query, width, height, updated, panic, nsets, pre, drop>>

\* the loop body ends with nothing moved
Stay ==
    /\ visits' = Append(visits, <<ids[y][x], "stay", <<x, y>>>>)
    /\ NextCell
    /\ UNCHANGED <<query, width, height, blocks, updated, panic, nsets, pre, ids, acted, shoved, drop,
                   hist>>

\* the program ends in a panic
Abort(message) ==
    /\ panic' = message
    /\ UNCHANGED <<query, width, height, blocks, pc, x, y, updated, nsets, pre, ids, acted, shoved, drop,
                   visits, hist>>

\* --------------------------------------------------------------- side flow
\* positions of update with can_move_to asked of the neighbour instead of the block
FlowPositionsReversed(block, cx, cy) ==
    (IF cx > 0 /\ can_move_to(blocks[cy][cx - 1], block) THEN <<cx - 1>> ELSE <<>>)
    \o (IF cx < width - 1 /\ can_move_to(blocks[cy][cx + 1], block) THEN <<cx + 1>> ELSE <<>>)

\* positions of update, as pushed
FlowPositions(block, cx, cy) ==
    (IF cx > 0 /\ can_move_to(block, blocks[cy][cx - 1]) THEN <<cx - 1>> ELSE <<>>)
    \o (IF cx < width - 1 /\ can_move_to(block, blocks[cy][cx + 1]) THEN <<cx + 1>> ELSE <<>>)

\* the same with the two removed indices exchanged
DampedSwapped(positions, flow_dir, cx) ==
    IF flow_dir = "Left" /\ Contains(positions, WrapPred(cx)) /\ Len(positions) > 1
    THEN Remove(positions, 0)
    ELSE IF flow_dir = "Right" /\ Contains(positions, cx + 1) /\ Len(positions) > 1
         THEN Remove(positions, 1)
         ELSE positions

\* positions after "remove other direction if continuing flow direction is possible"
Damped(positions, flow_dir, cx) ==
    IF flow_dir = "Left" /\ Contains(positions, WrapPred(cx)) /\ Len(positions) > 1
    THEN Remove(positions, 1)
    ELSE IF flow_dir = "Right" /\ Contains(positions, cx + 1) /\ Len(positions) > 1
         THEN Remove(positions, 0)
         ELSE positions

\* x - 1 is evaluated at x = 0: "flow_dir == FlowDir::Left && positions.contains(&(x-1))"
SubtractOverflows(flow_dir, cx) == flow_dir = "Left" /\ cx = 0

\* what the build does with an overflowing subtraction: panic (overflow checks on,
\* the dev profile) or wrap (overflow checks off, the release profile)
OverflowOutcomes == {"panic", "wrap"}

\* the flow that leaves Air behind, whatever was in the column position
FlowLeavesAir(block, position) ==
    LET flowing == IF position < x THEN "Left" ELSE "Right"
        flowed == clone_with_flow(block, flowing)
    IN  IF ~InBounds(position, y) THEN Abort("index out of bounds")
        ELSE IF flowed = Unreachable THEN Abort("unreachable")
        ELSE /\ blocks' = [blocks EXCEPT ![y][x] = Air,
                                          ![y][position] = flowed]
             /\ updated' = Append(updated, <<position, y>>)
             /\ Moved(<<x, y>>, <<position, y>>)
             /\ visits' = Append(visits, <<ids[y][x], "flow", <<position, y>>>>)
             /\ NextCell
             /\ UNCHANGED <<query, width, height, panic, nsets, pre, drop>>

\* the flow that pushes the cell it left, not the cell it went to
FlowMarksSource(block, position) ==
    LET flowing == IF position < x THEN "Left" ELSE "Right"
        flowed == clone_with_flow(block, flowing)
    IN  IF ~InBounds(position, y) THEN Abort("index out of bounds")
        ELSE IF flowed = Unreachable THEN Abort("unreachable")
        ELSE /\ blocks' = [blocks EXCEPT ![y][x] = blocks[y][position],
                                          ![y][position] = flowed]
             /\ updated' = Append(updated, <<x, y>>)
             /\ Moved(<<x, y>>, <<position, y>>)
             /\ visits' = Append(visits, <<ids[y][x], "flow", <<position, y>>>>)
             /\ NextCell
             /\ UNCHANGED <<query, width, height, panic, nsets, pre, drop>>

\* the liquid block at (x, y) flows to the column position of its row
Flow(block, position) ==
    LET flowing == IF position < x THEN "Left" ELSE "Right"
        flowed == clone_with_flow(block, flowing)
    IN  IF ~InBounds(position, y) THEN Abort("index out of bounds")
        ELSE IF flowed = Unreachable THEN Abort("unreachable")
        ELSE /\ blocks' = [blocks EXCEPT ![y][x] = blocks[y][position],
                                          ![y][position] = flowed]
             /\ updated' = Append(updated, <<position, y>>)
             /\ Moved(<<x, y>>, <<position, y>>)
             /\ visits' = Append(visits, <<ids[y][x], "flow", <<position, y>>>>)
             /\ NextCell
             /\ UNCHANGED <<query, width, height, panic, nsets, pre, drop>>

SideFlow(block) ==
    LET flow_dir == get_flow_dir(block)
        positions == Damped(FlowPositions(block, x, y), flow_dir, x)
    IN  \E outcome \in OverflowOutcomes :
            IF SubtractOverflows(flow_dir, x) /\ outcome = "panic"
            THEN Abort("attempt to subtract with overflow")
            ELSE IF positions = <<>>
                 THEN Stay
                 ELSE \E position \in Range(positions) : Flow(block, position)

\* the loop body for a block that is not skipped
VisitCell ==
    /\ pc = "update"
    /\ panic = "none"
    /\ LET block == blocks[y][x]
           targets == GravityTargets(x, y)
       IN  /\ ~Skips(block)
           /\ CASE state(block) = "Solid" ->
                     IF targets = {} THEN Stay ELSE \E to \in targets : Fall(to)
                [] state(block) = "Liquid" ->
                     IF targets = {} THEN SideFlow(block) ELSE \E to \in targets : Fall(to)
                [] OTHER -> Abort("unimplemented")

Next == SetBlock \/ BeginUpdate \/ SkipCell \/ VisitCell \/ EndUpdate

Spec == Init /\ [][Next]_vars

\* ------------------------------------------- a world with blocks painted in
\* what the driver paints before the first update
PileBlock == {Stone, Sand, Water("None"), Lava("None")}

\* the grid that is Air but for the cells of fill
Painted(fill) ==
    [j \in Rows(height) |-> [i \in Cols(width) |->
        IF <<i, j>> \in DOMAIN fill THEN fill[<<i, j>>] ELSE Air]]

\* World::new(PileSize, PileSize) after set_block on at most MaxBlocks of its cells
InitPile ==
    /\ width = PileSize
    /\ height = PileSize
    /\ \E cells \in {S \in SUBSET Coords : Cardinality(S) <= MaxBlocks} :
           \E fill \in [cells -> PileBlock] : blocks = Painted(fill)
    /\ pc = "idle"
    /\ x = 0
    /\ y = 0
    /\ updated = <<>>
    /\ panic = "none"
    /\ nsets = 0
    /\ pre = <<>>
    /\ ids = <<>>
    /\ acted = <<>>
    /\ shoved = <<>>
    /\ drop = <<>>
    /\ visits = <<>>
    /\ hist = <<>>
    /\ mover = Air
    /\ target = Air
    /\ answer = <<>>

\* the driver only calls update
NextPile == BeginUpdate \/ SkipCell \/ VisitCell \/ EndUpdate

SpecPile == InitPile /\ [][NextPile]_vars

\* World::new(PileSize, PileSize) after set_block on at most BiasBlocks of its cells,
\* all liquids with bias None; the horizontal moves of every block are followed from here
InitBias ==
    /\ width = PileSize
    /\ height = PileSize
    /\ \E cells \in {S \in SUBSET Coords : Cardinality(S) <= BiasBlocks} :
           \E fill \in [cells -> PileBlock] : blocks = Painted(fill)
    /\ pc = "idle"
    /\ x = 0
    /\ y = 0
    /\ updated = <<>>
    /\ panic = "none"
    /\ nsets = 0
    /\ pre = <<>>
    /\ ids = <<>>
    /\ acted = <<>>
    /\ shoved = <<>>
    /\ drop = <<>>
    /\ visits = <<>>
    /\ hist = [j \in Rows(height) |-> [i \in Cols(width) |-> <<"None", "None">>]]
    /\ mover = Air
    /\ target = Air
    /\ answer = <<>>

SpecBias == InitBias /\ [][NextPile]_vars

GranularBlock == {Stone, Sand}

\* World::new(PileSize, PileSize) after set_block of Stone or Sand on at most MaxBlocks
\* of its cells; the horizontal moves of every block are followed from here
InitGranular ==
    /\ width = PileSize
    /\ height = PileSize
    /\ \E cells \in {S \in SUBSET Coords : Cardinality(S) <= MaxBlocks} :
           \E fill \in [cells -> GranularBlock] : blocks = Painted(fill)
    /\ pc = "idle"
    /\ x = 0
    /\ y = 0
    /\ updated = <<>>
    /\ panic = "none"
    /\ nsets = 0
    /\ pre = <<>>
    /\ ids = <<>>
    /\ acted = <<>>
    /\ shoved = <<>>
    /\ drop = <<>>
    /\ visits = <<>>
    /\ hist = [j \in Rows(height) |-> [i \in Cols(width) |-> <<"None", "None">>]]
    /\ mover = Air
    /\ target = Air
    /\ answer = <<>>

\* the frame loop of main never stops calling update, and every update runs to its end
SpecGranular == InitGranular /\ [][NextPile]_vars /\ WF_vars(NextPile)

\* ------------------------------------------------ can_move_to on its own
world == <<width, height, blocks, pc, x, y, updated, panic, nsets, pre, ids, acted, shoved, drop,
           visits, hist>>

InitMove ==
    /\ mover \in Block
    /\ target \in Block
    /\ answer = <<>>
    /\ width = 0
    /\ height = 0
    /\ blocks = NewGrid(0, 0)
    /\ pc = "idle"
    /\ x = 0
    /\ y = 0
    /\ updated = <<>>
    /\ panic = "none"
    /\ nsets = 0
    /\ pre = <<>>
    /\ ids = <<>>
    /\ acted = <<>>
    /\ shoved = <<>>
    /\ drop = <<>>
    /\ visits = <<>>
    /\ hist = <<>>

\* is_solid, which the earlier body of can_move_to calls: the block is a solid
is_solid(b) == state(b) = "Solid"

\* the earlier body of can_move_to, kept in a comment
can_move_to_excluding(self, other) ==
    /\ ~is_solid(other)
    /\ other # self
    /\ (Kind(self) # "Water" \/ Kind(other) # "Water")

\* mover.can_move_to(target) and target.can_move_to(mover), and what the earlier body
\* of can_move_to returns for mover and target
CanMoveTo ==
    /\ answer = <<>>
    /\ answer' = <<can_move_to(mover, target), can_move_to(target, mover),
                   can_move_to_excluding(mover, target)>>
    /\ UNCHANGED <<mover, target, world>>

SpecMove == InitMove /\ [][CanMoveTo]_vars

\* ================================================================== claims
At(g, c) == g[c[2]][c[1]]
Liquids == {Water(f) : f \in FlowDir} \cup {Lava(f) : f \in FlowDir}
\* b at c in a grid otherwise Air
LoneBlock(g, c, b) == \A d \in Coords : At(g, d) = IF d = c THEN b ELSE Air

\* C1, as stated: within one call of update no block is moved twice (by its own move
\* or by being displaced), and no coordinate is pushed to updated more than once.
C1_NoBlockMovedTwice ==
    /\ \A c \in Coords : Count(acted, c) + Count(shoved, c) <= 1
    /\ \A c \in Coords : Count(updated, c) <= 1

\* C1, amended: within one call of update no block is moved twice by its own gravity
\* or side flow (a denser block may displace it besides), and a coordinate is pushed
\* to updated at most twice.
C1_NoBlockActsTwice ==
    /\ \A c \in Coords : Count(acted, c) <= 1
    /\ \A c \in Coords : Count(updated, c) <= 2

\* C1, reached: an update ended in which a block moved and was then displaced, and a coordinate
\* was the destination of two side flows
C1_MovedThenShoved ==
    /\ pc = "done"
    /\ \E c \in Coords : Count(acted, c) = 1 /\ Count(shoved, c) >= 1
    /\ \E d \in Coords : Count(updated, d) = 2

\* the loop body is about to evaluate x - 1 with x = 0
EvaluatesUnderflow ==
    /\ pc = "update"
    /\ panic = "none"
    /\ ~Skips(blocks[y][x])
    /\ state(blocks[y][x]) = "Liquid"
    /\ GravityTargets(x, y) = {}
    /\ SubtractOverflows(get_flow_dir(blocks[y][x]), x)

\* C2: update never ends in a fatal error (an index outside the grid, unimplemented!,
\* unreachable!, a subtraction that overflows) and never evaluates x - 1 with x = 0.
C2_NoFatalError == panic = "none" /\ ~EvaluatesUnderflow

\* Sand at c with Air directly below
SandOverAir(g, c) == At(g, c) = Sand /\ c[2] + 1 < height /\ g[c[2] + 1][c[1]] = Air

\* C3: a Sand that had Air directly below when update was called is, when update
\* returns, one row lower in the same column.
C3_SandFallsOneRow ==
    pc = "done" =>
        \A c \in Coords :
            SandOverAir(pre, c) =>
                /\ blocks[c[2] + 1][c[1]] = Sand
                /\ ids[c[2] + 1][c[1]] = c

\* C3, reached: update returned, and a Sand over Air fell onto a liquid that had flowed under it
C3_SandFellOntoLiquid ==
    /\ pc = "done"
    /\ \E c \in Coords : SandOverAir(pre, c) /\ state(At(blocks, c)) = "Liquid"

\* the loop body is at a liquid of bias dir that cannot fall and can displace both
\* of its neighbours
BiasedOpen(dir) ==
    /\ pc = "update"
    /\ panic = "none"
    /\ ~Skips(blocks[y][x])
    /\ state(blocks[y][x]) = "Liquid"
    /\ GravityTargets(x, y) = {}
    /\ get_flow_dir(blocks[y][x]) = dir
    /\ x > 0
    /\ x < width - 1
    /\ can_move_to(blocks[y][x], blocks[y][x - 1])
    /\ can_move_to(blocks[y][x], blocks[y][x + 1])

\* C4, at the level of one update: a lone liquid of bias Left on the floor moves one column left in an update, and
\* right only from column 0
C4_LoneLiquidKeepsLeft ==
    pc = "done" =>
        \A c \in Coords, b \in Liquids :
            (LoneBlock(pre, c, b) /\ get_flow_dir(b) = "Left" /\ c[2] = height - 1) =>
                IF c[1] > 0
                THEN LoneBlock(blocks, <<c[1] - 1, c[2]>>, b)
                ELSE \/ width = 1 /\ blocks = pre
                     \/ width > 1 /\ LoneBlock(blocks, <<1, c[2]>>, clone_with_flow(b, "Right"))

\* C4: a liquid that cannot fall, has bias Left (Right) and can displace both of its
\* neighbours moves left (right); so a lone liquid on the floor that flowed left keeps
\* moving left in every update until the left edge blocks it.
C4_BiasKept ==
    /\ []C4_LoneLiquidKeepsLeft
    /\ [][/\ BiasedOpen("Left") =>
                blocks' = [blocks EXCEPT ![y][x] = blocks[y][x - 1], ![y][x - 1] = blocks[y][x]]
          /\ BiasedOpen("Right") =>
                blocks' = [blocks EXCEPT ![y][x] = blocks[y][x + 1], ![y][x + 1] = blocks[y][x]]
         ]_vars

\* C4, reached: update returned after a lone liquid of bias Left, both sides open, moved left
C4_LoneLiquidMovedLeft ==
    /\ pc = "done"
    /\ \E c \in Coords, b \in Liquids :
        /\ LoneBlock(pre, c, b)
        /\ get_flow_dir(b) = "Left"
        /\ c[1] > 0
        /\ c[1] < width - 1
        /\ LoneBlock(blocks, <<c[1] - 1, c[2]>>, b)

SolidAt(g, px, py) == InBounds(px, py) /\ state(g[py][px]) = "Solid"
\* a solid that cannot move: Stone, or Sand in the bottom row
FixedAt(g, px, py) ==
    /\ InBounds(px, py)
    /\ \/ g[py][px] = Stone
       \/ g[py][px] = Sand /\ py = height - 1

\* Sand at c over three solids
SandOnSolids(g, c) ==
    /\ At(g, c) = Sand
    /\ SolidAt(g, c[1], c[2] + 1)
    /\ SolidAt(g, c[1] - 1, c[2] + 1)
    /\ SolidAt(g, c[1] + 1, c[2] + 1)

\* Sand at c over three solids that cannot move
SandOnFixed(g, c) ==
    /\ At(g, c) = Sand
    /\ FixedAt(g, c[1], c[2] + 1)
    /\ FixedAt(g, c[1] - 1, c[2] + 1)
    /\ FixedAt(g, c[1] + 1, c[2] + 1)

\* C5, as stated: a Sand whose cell below and two lower diagonal cells hold solids
\* (Stone or Sand) is at the same coordinate when update returns.
C5_SandOnSolidsStays ==
    pc = "done" =>
        \A c \in Coords : SandOnSolids(pre, c) => At(blocks, c) = Sand /\ At(ids, c) = c

\* C5, amended: a Sand whose cell below and two lower diagonal cells hold Stone, or
\* Sand of the bottom row, stays at its coordinate throughout update, and is still
\* over such cells, so that it stays in every later update as well.
C5_SandOnFixedStays ==
    pc \in {"update", "done"} =>
        \A c \in Coords :
            SandOnFixed(pre, c) =>
                At(blocks, c) = Sand /\ At(ids, c) = c /\ SandOnFixed(blocks, c)

\* C5, reached: update returned with a Sand over three fixed solids while another block moved
C5_SandStayedWhileOthersMoved ==
    /\ pc = "done"
    /\ acted # <<>>
    /\ \E c \in Coords : SandOnFixed(pre, c)

\* C6: k updates after set_block put one Sand at (x, y) into a grid otherwise Air,
\* the Sand is at (x, min(y + k, height - 1)) and every other cell is Air.
C6_LoneSandDrops ==
    (pc = "idle" /\ drop # <<>>) =>
        LoneSand(blocks, drop[1], Min(drop[2] + drop[3], height - 1))

\* C6, reached: the 3 x 3 case: the Sand placed at (1, 0), three updates later
C6_ThreeUpdatesLater ==
    pc = "idle" /\ width = 3 /\ height = 3 /\ drop = <<1, 0, 3>> /\ blocks[2][1] = Sand

\* C7: one update of the single row [Water(None), Air, Air] leaves the water in
\* column 1 or 2 and Air in column 0.
C7_WaterLeavesColumn0 ==
    (/\ pc = "done"
     /\ width = 3
     /\ height = 1
     /\ pre = [NewGrid(3, 1) EXCEPT ![0][0] = Water("None")]) =>
        /\ blocks[0][0] = Air
        /\ \/ Kind(blocks[0][1]) = "Water" /\ blocks[0][2] = Air
           \/ blocks[0][1] = Air /\ Kind(blocks[0][2]) = "Water"

\* C7, reached: update returned on the row that was [Water(None), Air, Air]
C7_WaterRowUpdated ==
    /\ pc = "done"
    /\ width = 3
    /\ height = 1
    /\ pre = [NewGrid(3, 1) EXCEPT ![0][0] = Water("None")]

\* C8: update of a grid of Stone and Air changes no cell.
C8_StaticGridUnchanged ==
    (pc \in {"update", "done"} /\ \A c \in Coords : At(pre, c) \in {Air, Stone}) =>
        blocks = pre /\ acted = <<>>

\* C8, reached: update returned on a grid of Stone and Air with a Stone over Air
C8_StoneOverAirUpdated ==
    /\ pc = "done"
    /\ \A c \in Coords : At(pre, c) \in {Air, Stone}
    /\ \E c \in Coords : At(pre, c) = Stone /\ c[2] + 1 < height /\ pre[c[2] + 1][c[1]] = Air

\* C9: can_move_to is asymmetric: a.can_move_to(b) excludes b.can_move_to(a), no
\* block can move to itself, and no liquid to a liquid of its kind, whatever the biases.
C9_CanMoveToAsymmetric ==
    answer # <<>> =>
        /\ answer[1] => ~answer[2]
        /\ Kind(mover) = Kind(target) => ~answer[1]

\* C9, reached: can_move_to was asked about two liquids of one kind and different biases
C9_SameKindAsked ==
    answer # <<>> /\ mover \in Liquids /\ Kind(mover) = Kind(target) /\ mover # target

\* C10: get_block is None exactly outside the grid; set_block outside the grid
\* changes nothing, and inside it changes the one cell, which get_block then returns;
\* neither panics.
C10_BoundsChecked ==
    (pc = "idle" /\ panic = "none") =>
        \A px \in ArgX, py \in ArgY :
            /\ (px >= width \/ py >= height) <=> get_block(blocks, px, py) = None
            /\ \A block \in Block :
                LET after == set_block(blocks, px, py, block)
                IN  /\ after.panic = "none"
                    /\ IF px >= width \/ py >= height
                       THEN after.blocks = blocks
                       ELSE /\ \A c \in Coords :
                                 c # <<px, py>> => At(after.blocks, c) = At(blocks, c)
                            /\ get_block(after.blocks, px, py) = Some(block)

\* C10, reached: set_block was called, and some cell holds a block
C10_BlockWritten == nsets > 0 /\ \E c \in Coords : At(blocks, c) # Air

\* the block at (cx, cy) of grid g can displace the block at (px, py)
Displaces(g, cx, cy, px, py) == InBounds(px, py) /\ can_move_to(g[cy][cx], g[py][px])

\* the diagonal fall from (cx, cy) towards column px is open: the mover can displace
\* the target and the cell beside itself, above the target
DiagonalOpen(g, cx, cy, px) ==
    Displaces(g, cx, cy, px, cy + 1) /\ Displaces(g, cx, cy, px, cy)

\* the block at (cx, cy) can fall neither straight down nor to a diagonal
Blocked(g, cx, cy) ==
    /\ ~Displaces(g, cx, cy, cx, cy + 1)
    /\ \A px \in {cx - 1, cx + 1} : ~DiagonalOpen(g, cx, cy, px)

\* the cell the block that was at (x, y) is in after the step
Landing == {c \in Coords : At(ids', c) = ids[y][x]}

\* C11: the loop body never moves the block at (x, y) to (x - 1, y + 1) or
\* (x + 1, y + 1) unless it can displace both that cell and the cell above it, beside
\* (x, y); a block that can fall neither straight nor diagonally stays in its row, and
\* the other rows are unchanged; if it is a solid, the whole grid is unchanged.
C11_DiagonalNeedsBothCells ==
    [][(pc = "update" /\ panic = "none") =>
          /\ \A c \in Landing :
                (c[2] = y + 1 /\ c[1] # x) => DiagonalOpen(blocks, x, y, c[1])
          /\ (~is_static(blocks[y][x]) /\ Blocked(blocks, x, y)) =>
                /\ \A c \in Landing : c[2] = y
                /\ \A c \in Coords : c[2] # y => At(blocks', c) = At(blocks, c)
                /\ state(blocks[y][x]) = "Solid" => blocks' = blocks]_vars

\* C11, reached: a Sand on Stone, with Air diagonally below it and Stone beside it above
\* that Air, is where it was when the update ends
C11_SandHeldBySideStone ==
    /\ pc = "done"
    /\ \E c \in Coords :
          /\ At(pre, c) = Sand /\ At(blocks, c) = Sand /\ At(ids, c) = c
          /\ InBounds(c[1] + 1, c[2] + 1)
          /\ pre[c[2] + 1][c[1]] = Stone
          /\ pre[c[2]][c[1] + 1] = Stone
          /\ pre[c[2] + 1][c[1] + 1] = Air /\ blocks[c[2] + 1][c[1] + 1] = Air
          /\ (c[1] = 0 \/ pre[c[2]][c[1] - 1] = Stone)

\* C12: during one update no block, moved by its own fall or displaced by another
\* block, gets more than one row below the row it was in when the update began.
C12_AtMostOneRowDown ==
    pc \in {"update", "done"} =>
        \A c \in Coords : c[2] <= At(ids, c)[2] + 1

\* C12, reached: when the update ends, a block is one row lower, in another column,
\* and the block it displaced, not Air, is one row higher
C12_FellAndDisplaced ==
    /\ pc = "done"
    /\ \E c, d \in Coords :
          /\ At(blocks, c) # Air /\ At(blocks, d) # Air
          /\ c[2] = At(ids, c)[2] + 1 /\ c[1] # At(ids, c)[1]
          /\ d[2] + 1 = At(ids, d)[2]

\* C13: a liquid the loop body handles that can displace the cell below it, or has an
\* open diagonal, falls one row and makes no side flow; so a side flow is made only by
\* a liquid that could not fall, and no block both falls and side-flows in one update.
C13_FallsBeforeSideFlow ==
    [][(pc = "update" /\ panic = "none" /\ state(blocks[y][x]) = "Liquid"
          /\ ~Contains(updated, <<x, y>>)) =>
          /\ ~Blocked(blocks, x, y) =>
                /\ \A c \in Landing : c[2] = y + 1
                /\ updated' = updated
          /\ updated' # updated => Blocked(blocks, x, y)
          /\ \A v, w \in Range(visits') : (v[1] = w[1] /\ v[2] = "flow") => w[2] = "flow"]_vars

\* C13, reached: a liquid with Air beside it fell to a diagonal, and the update ended
\* without any side flow
C13_LiquidFellBesideAir ==
    /\ pc = "done" /\ updated = <<>>
    /\ \E c, d \in Coords :
          /\ At(pre, c) \in Liquids /\ At(ids, d) = c
          /\ d[2] = c[2] + 1 /\ d[1] # c[1]
          /\ \E px \in {c[1] - 1, c[1] + 1} : InBounds(px, c[2]) /\ pre[c[2]][px] = Air

\* C14: a step that pushes to updated is a side flow of the liquid at (x, y) to a
\* column position beside x: (position, y) then holds that liquid with bias Left if
\* position < x and Right otherwise, (x, y) holds what (position, y) held, no other
\* cell changes and (position, y) is what was pushed; a liquid that can neither fall
\* nor displace a neighbour in its row stays, bias kept, and the grid is unchanged.
C14_SideFlowFrame ==
    [][(pc = "update" /\ panic = "none") =>
          /\ updated' # updated =>
                LET position == updated'[Len(updated')][1]
                    block == blocks[y][x]
                IN  /\ updated' = Append(updated, <<position, y>>)
                    /\ position \in {x - 1, x + 1} /\ InBounds(position, y)
                    /\ state(block) = "Liquid"
                    /\ \A c \in Coords :
                          At(blocks', c) =
                              IF c = <<position, y>>
                              THEN <<Kind(block), IF position < x THEN "Left" ELSE "Right">>
                              ELSE IF c = <<x, y>> THEN blocks[y][position]
                              ELSE At(blocks, c)
          /\ (/\ state(blocks[y][x]) = "Liquid"
              /\ Blocked(blocks, x, y)
              /\ \A px \in {x - 1, x + 1} : ~Displaces(blocks, x, y, px, y)) =>
                blocks' = blocks /\ updated' = updated]_vars

\* C14, reached: in a world one row high a liquid flowed into the cell of a block that
\* is not Air
C14_FlowDisplacedBlock ==
    height = 1 /\ pc \in {"update", "done"} /\ updated # <<>> /\ shoved # <<>>

\* C15: followed from a world whose liquids have bias None, the bias of every liquid
\* is the direction of the last move that changed its column, by its own move or by
\* being displaced, and None if its column never changed.
C15_BiasIsLastColumnChange ==
    (hist # <<>> /\ pc \in {"idle", "done"}) =>
        \A c \in Coords :
            At(blocks, c) \in Liquids => get_flow_dir(At(blocks, c)) = At(hist, c)[1]

\* C15 amended: the bias of every liquid is the direction of the last side flow it
\* made, and None if it made none; falls and being displaced leave it as it is.
C15_BiasIsLastSideFlow ==
    hist # <<>> =>
        \A c \in Coords :
            At(blocks, c) \in Liquids => get_flow_dir(At(blocks, c)) = At(hist, c)[2]

\* C15, reached: after an update a liquid that once flowed to one side has last
\* changed its column to the other side, and its bias is still that of the flow
C15_BiasOlderThanLastMove ==
    /\ hist # <<>> /\ pc = "done"
    /\ \E c \in Coords :
          /\ At(blocks, c) \in Liquids
          /\ At(hist, c)[2] # "None" /\ At(hist, c)[1] # At(hist, c)[2]

\* C16: for every mover and target among Air, Stone, Sand, Water and Lava of any bias,
\* the density comparison of can_move_to and its earlier exclusion rule give the same
\* answer.
C16_EncodingsAgree == answer # <<>> => answer[1] = answer[3]

\* the pairs on which the exclusion rule allows a move the density comparison forbids
ExclusionOnly ==
    \/ mover = Air /\ target \in Liquids
    \/ Kind(mover) = "Water" /\ Kind(target) = "Lava"
    \/ Kind(mover) = "Lava" /\ Kind(target) = "Lava" /\ mover # target

\* the pairs on which the density comparison allows a move the exclusion rule forbids
DensityOnly == mover = Stone /\ target = Sand

\* C16 amended: the two rules give the same answer except that the exclusion rule alone
\* allows Air onto a liquid, Water onto Lava and Lava onto Lava of another bias, and
\* the density comparison alone allows Stone onto Sand; so they agree for every mover
\* Sand, and for every mover Water or Lava whose target is not Lava.
C16_EncodingsDifferOnLava ==
    answer # <<>> =>
        /\ (answer[3] /\ ~answer[1]) <=> ExclusionOnly
        /\ (answer[1] /\ ~answer[3]) <=> DensityOnly
        /\ (mover = Sand \/ (mover \in Liquids /\ Kind(target) # "Lava")) =>
               answer[1] = answer[3]

\* C16, reached: both rules were asked whether Water can move to Lava
C16_WaterAskedAboutLava ==
    answer # <<>> /\ Kind(mover) = "Water" /\ Kind(target) = "Lava"

Kinds == {Kind(b) : b \in Block}

\* the number of cells of g holding a block of the kind k, whatever its bias
KindCount(g, k) == Cardinality({c \in Coords : Kind(At(g, c)) = k})

\* C17: at every point of an update, and when it ends, the grid holds as many cells of
\* each kind (Air, Stone, Sand, Water, Lava, whatever the bias) as when it began.
C17_KindsConserved ==
    pc \in {"update", "done"} =>
        \A k \in Kinds : KindCount(blocks, k) = KindCount(pre, k)

\* C17, reached: an update ended in which a block fell, a liquid flowed sideways and
\* a block that is not Air was displaced
C17_FellFlowedDisplaced ==
    /\ pc = "done" /\ shoved # <<>>
    /\ \E v, w \in Range(visits) : v[2] = "fall" /\ w[2] = "flow"

\* the loop is at a block that is not static and whose cell is in updated
SkipsUpdated ==
    pc = "update" /\ panic = "none" /\ ~is_static(blocks[y][x]) /\ Contains(updated, <<x, y>>)

\* C18: a block that is skipped because its cell is in updated is the liquid that made
\* a side flow into that cell earlier in this update, so no block is skipped before
\* the loop body handled it; and the loop body handles no block twice in one update.
C18_SkippedBlockFlowedThere ==
    pc \in {"update", "done"} =>
        /\ SkipsUpdated =>
              /\ blocks[y][x] \in Liquids
              /\ <<ids[y][x], "flow", <<x, y>>>> \in Range(visits)
        /\ \A i, j \in DOMAIN visits : visits[i][1] = visits[j][1] => i = j

\* C18, reached: the loop is at a liquid that is skipped because its cell is in updated
C18_LoopAtFlowedLiquid == SkipsUpdated /\ visits # <<>>

\* C19: in a world of Sand, Stone and Air only, whatever the random choices, the
\* repeated updates reach a point from which no block moves any more and every update
\* leaves the grid as it found it.
C19_GranularComesToRest ==
    <>[](acted = <<>> /\ (pc = "done" => blocks = pre))

\* C19, reached: an update moved nothing, in a world where a Sand had rolled to a
\* diagonal in an earlier update
C19_AtRestAfterRolling ==
    /\ pc = "done" /\ acted = <<>> /\ blocks = pre
    /\ hist # <<>>
    /\ \A c \in Coords : At(blocks, c) \in {Air, Stone, Sand}
    /\ \E c \in Coords : At(blocks, c) = Sand /\ At(hist, c)[1] # "None"
====
